---- MODULE Spec2Model ----
(***************************************************************************)
(* django-api-tools: the URL classifier (APIView.py, class APIUrl), the    *)
(* tiered serializer (APIModel.py, class APIModel) and the dispatcher      *)
(* (APIView.py, class APIView), with the models and the view of            *)
(* django_api_tools/tests as the concrete endpoint types.                  *)
(*                                                                         *)
(* Python values: None is the string "None"; a path is the list            *)
(* request.path.split("/") (url_components), so "/api/foo/" is             *)
(* <<"", "api", "foo", "">>; Python index i is TLA+ index i + 1.            *)
(***************************************************************************)
EXTENDS Integers, Sequences, FiniteSets, TLC

VARIABLES
    ADDITIONAL_FIELDS,  \* APIUrl.ADDITIONAL_FIELDS: the class-level list, one per process
    url_validator,      \* the APIUrl instance of the last request (its instance attributes)
    request,            \* the last request handled
    response,           \* the response (or uncaught error) of the last request
    objects,            \* the backing store: objects[cls][id] is the persisted row
    instances,          \* in-memory model instances a caller holds, by handle
    call,               \* the last serialization call made on a held instance
    result,             \* what that call returned
    previous,           \* the call before it and what it returned, when it was the same call
    dictified,          \* the last direct dictify call on a held instance, and its result
    session,            \* the user the client's session is logged in as, or None
    invoked,            \* the capabilities the handling of the last request called
    inflight            \* the model instance each request in progress has loaded

vars == <<ADDITIONAL_FIELDS, url_validator, request, response,
          objects, instances, call, result, previous, dictified, session,
          invoked, inflight>>

None == "None"

\* ------------------------------------------------------------------ bounds
\* longest url_components list (Python len) a request path splits into
MaxComponents == 5
\* cap on the length of the class-level list APIUrl.ADDITIONAL_FIELDS
MaxAdditional == 2

\* ------------------------------------------------------------ ReservedURL
LOGIN == "login"
LOGOUT == "logout"
CSRFTOKEN == "csrftoken"

RESERVED_URLS == {LOGIN, LOGOUT, CSRFTOKEN}

\* ----------------------------------------------------------------- APIUrl
\* The attributes a new APIUrl instance reads before split_url_components
\* assigns them: the class attributes (ADDITIONAL_FIELDS is the class's list).
APIUrlClass(additional) ==
    [REQUESTED_MODEL |-> None,
     REQUESTED_MODEL_INSTANCE |-> None,
     RESERVED_URL |-> None,
     ADDITIONAL_FIELDS |-> additional]

\* The loop body of split_url_components from Python index i on; the three
\* scalar attributes are assigned on the instance, ADDITIONAL_FIELDS.append
\* mutates the list the class holds.
RECURSIVE split_loop_nobreak(_, _, _)
split_loop_nobreak(url_components, i, self) ==
    IF i >= Len(url_components) THEN self
    ELSE LET c == url_components[i + 1] IN
         IF c = "" THEN split_loop_nobreak(url_components, i + 1, self)
         ELSE IF i = 2 THEN
                 IF c \in RESERVED_URLS
                 THEN split_loop_nobreak(url_components, i + 1,
                                         [self EXCEPT !.RESERVED_URL = c])
                 ELSE split_loop_nobreak(url_components, i + 1,
                                         [self EXCEPT !.REQUESTED_MODEL = c])
         ELSE IF i = 3 THEN
                 split_loop_nobreak(url_components, i + 1,
                                    [self EXCEPT !.REQUESTED_MODEL_INSTANCE = c])
         ELSE split_loop_nobreak(url_components, i + 1,
                  [self EXCEPT !.ADDITIONAL_FIELDS = Append(@, c)])

RECURSIVE split_loop(_, _, _)
split_loop(url_components, i, self) ==
    IF i >= Len(url_components) THEN self
    ELSE LET c == url_components[i + 1] IN
         IF c = "" THEN split_loop(url_components, i + 1, self)
         ELSE IF i = 2 THEN
                 IF c \in RESERVED_URLS
                 THEN [self EXCEPT !.RESERVED_URL = c]
                 ELSE split_loop(url_components, i + 1,
                                 [self EXCEPT !.REQUESTED_MODEL = c])
         ELSE IF i = 3 THEN
                 split_loop(url_components, i + 1,
                            [self EXCEPT !.REQUESTED_MODEL_INSTANCE = c])
         ELSE split_loop(url_components, i + 1,
                         [self EXCEPT !.ADDITIONAL_FIELDS = Append(@, c)])

\* split_url_components without the break after a reserved URL.
split_url_components_nobreak(url_components, additional) ==
    split_loop_nobreak(url_components, 2, APIUrlClass(additional))

\* APIUrl(request): __init__ calls split_url_components(request); the result
\* holds the instance attributes and the class's list after the call.
split_url_components(url_components, additional) ==
    split_loop(url_components, 2, APIUrlClass(additional))

is_valid_request(self) ==
    self.REQUESTED_MODEL # None \/ self.RESERVED_URL # None

\* returns self.RESERVED_URL, read for its truth value
is_reserved_url(self) ==
    self.RESERVED_URL # None

is_model_request(self) ==
    /\ self.REQUESTED_MODEL # None
    /\ self.REQUESTED_MODEL_INSTANCE = None
    /\ self.ADDITIONAL_FIELDS = <<>>

is_model_instance_request(self) ==
    /\ self.REQUESTED_MODEL_INSTANCE # None
    /\ self.ADDITIONAL_FIELDS = <<>>

is_custom_request(self) ==
    self.ADDITIONAL_FIELDS # <<>>

\* The intent the dispatcher acts on: the order in which APIView.get tests
\* the predicates of the APIUrl instance.
Intent(self) ==
    IF ~is_valid_request(self) THEN "Invalid"
    ELSE IF is_reserved_url(self) THEN "ReservedAction"
    ELSE IF is_model_request(self) THEN "CollectionRequest"
    ELSE IF is_model_instance_request(self) THEN "InstanceRequest"
    ELSE IF is_custom_request(self) THEN "CustomRequest"
    ELSE "Invalid"

\* --------------------------------------------------------------- APIModel
\* UserAuthCode
PUBLIC == 1
REGISTERED_USER == 2
OWNER == 3

\* Field and attribute names are Python strings, kept as tuples of characters
\* so that startswith and slicing act on them as they do in the code.
N_id == <<"i", "d">>
N_f1 == <<"f", "1">>
N_f2 == <<"f", "2">>
N_active == <<"a", "c", "t", "i", "v", "e">>
N_owner == <<"o", "w", "n", "e", "r">>
N_baz == <<"b", "a", "z">>
N_bars == <<"b", "a", "r", "s">>
N_foos == <<"f", "o", "o", "s">>
N_quxs == <<"q", "u", "x", "s">>
N_onetoone_short_owner == <<"o", "n", "e", "t", "o", "o", "n", "e", "_", "s", "h", "o", "r", "t", "_", "o", "w", "n", "e", "r">>
N_fk_short_baz == <<"f", "k", "_", "s", "h", "o", "r", "t", "_", "b", "a", "z">>
N_rel_short_bars == <<"r", "e", "l", "_", "s", "h", "o", "r", "t", "_", "b", "a", "r", "s">>

\* ReservedPrefix
FK_SHORT == <<"f", "k", "_", "s", "h", "o", "r", "t">>
FK_LONG == <<"f", "k", "_", "l", "o", "n", "g">>
REL_SHORT == <<"r", "e", "l", "_", "s", "h", "o", "r", "t">>
REL_LONG == <<"r", "e", "l", "_", "l", "o", "n", "g">>
ONE_TO_ONE_SHORT == <<"o", "n", "e", "t", "o", "o", "n", "e", "_", "s", "h", "o", "r", "t">>
ONE_TO_ONE_LONG == <<"o", "n", "e", "t", "o", "o", "n", "e", "_", "l", "o", "n", "g">>
MANY_TO_MANY_SHORT == <<"m", "2", "m", "_", "s", "h", "o", "r", "t">>
MANY_TO_MANY_LONG == <<"m", "2", "m", "_", "l", "o", "n", "g">>

\* APIModel._reserved_prefixes, in declaration order
reserved_prefixes ==
    <<FK_SHORT, FK_LONG, REL_SHORT, REL_LONG,
      ONE_TO_ONE_SHORT, ONE_TO_ONE_LONG, MANY_TO_MANY_SHORT, MANY_TO_MANY_LONG>>

\* str.startswith
startswith(field, prefix) ==
    /\ Len(field) >= Len(prefix)
    /\ SubSeq(field, 1, Len(prefix)) = prefix

\* field[n:]
slice_from(field, n) == SubSeq(field, n + 1, Len(field))

\* ---------------------------------------------- the models of tests/models.py
Classes == {"TestProfile", "Foo", "Bar", "Baz", "Qux"}

\* the users of the fixtures; "anon" is AnonymousUser
Users == {"anon", "u1", "u2"}
is_authenticated(user) == user # "anon"

\* user.test_profile: the id of the TestProfile row of the user
test_profile(user) ==
    CASE user = "u1" -> 1
      [] user = "u2" -> 2
      [] user = "u3" -> 3
      [] OTHER -> 0

public_fields(cls) ==
    IF cls = "TestProfile" THEN <<>> ELSE <<N_id>>

registered_user_fields(cls) ==
    CASE cls = "Foo" -> <<N_f1, N_onetoone_short_owner>>
      [] cls = "Bar" -> <<N_f1, N_fk_short_baz>>
      [] cls = "Baz" -> <<N_f1, N_rel_short_bars>>
      [] OTHER -> <<>>

owner_only_fields(cls) ==
    IF cls = "Foo" THEN <<N_f2>> ELSE <<>>

short_description_fields(cls) == public_fields(cls)

\* Foo: public + registered + owner-only; BarBaz: public_fields +
\* registered_user_fields as they are in the body of class BarBaz (the empty
\* tuple), which Bar, Baz and Qux inherit unchanged.
long_description_fields(cls) ==
    CASE cls = "Foo" ->
            public_fields(cls) \o registered_user_fields(cls) \o owner_only_fields(cls)
      [] cls = "TestProfile" -> <<>>
      [] OTHER -> public_fields(cls)

\* A freshly loaded instance: the row, plus the class attribute
\* _user_auth = PUBLIC; _curr_user is not set until set_user_auth runs.
Instance(cls, id, row) ==
    [cls |-> cls, id |-> id,
     active |-> row.active, date_deactivated |-> row.date_deactivated,
     f1 |-> row.f1, f2 |-> row.f2, owner |-> row.owner, baz |-> row.baz,
     foos |-> row.foos,
     _user_auth |-> PUBLIC, _curr_user |-> None]

\* the persisted columns of an instance (what save() writes)
Row(self) ==
    [active |-> self.active, date_deactivated |-> self.date_deactivated,
     f1 |-> self.f1, f2 |-> self.f2, owner |-> self.owner, baz |-> self.baz,
     foos |-> self.foos]

\* cls.objects.get(id=...) for an id that exists
Load(cls, id) == Instance(cls, id, objects[cls][id])

\* is_owner of TestProfile, Foo and BarBaz (Bar, Baz, Qux).  It is only
\* called with an authenticated user (set_user_auth, and _post_handler with
\* an empty public_update_endpoints).
is_owner(self, request_user) ==
    CASE self.cls = "TestProfile" -> test_profile(request_user) = self.id
      [] self.cls = "Foo" -> test_profile(request_user) = self.owner
      [] OTHER -> TRUE

\* a row as the column defaults make it; date_deactivated = 0 is the null timestamp
NewRow == [active |-> 1, date_deactivated |-> 0, f1 |-> 1, f2 |-> 0,
           owner |-> 0, baz |-> 0, foos |-> {}]

\* Python None where a model instance is expected
NoInstance == [cls |-> None]

\* JSON-side values: a scalar, None, a dictionary or a list of dictionaries
Val(v) == [kind |-> "val", v |-> v]
NoneVal == [kind |-> "None"]
Dict(d) == [kind |-> "dict", d |-> d]
List(l) == [kind |-> "list", l |-> l]

EmptyDict == [k \in {} |-> NoneVal]

\* dict.update
update(d, e) ==
    [k \in (DOMAIN d) \cup (DOMAIN e) |-> IF k \in DOMAIN e THEN e[k] ELSE d[k]]

\* d[key] = value
setitem(d, key, value) ==
    [k \in (DOMAIN d) \cup {key} |-> IF k = key THEN value ELSE d[k]]

\* getattr(self, field, None) for a plain field: the columns of the class
getattr(self, field) ==
    CASE field = N_id -> Val(self.id)
      [] field = N_active -> Val(self.active)
      [] field = N_f1 /\ self.cls # "TestProfile" -> Val(self.f1)
      [] field = N_f2 /\ self.cls = "Foo" -> Val(self.f2)
      [] OTHER -> NoneVal

\* a set of ids as the list a queryset yields (ordered by id)
SortedIds(ids) ==
    LET RECURSIVE Asc(_)
        Asc(S) == IF S = {} THEN <<>>
                  ELSE LET m == CHOOSE x \in S : \A y \in S : x <= y
                       IN <<m>> \o Asc(S \ {m})
    IN Asc(ids)

\* getattr(self, relation, None) for a relation name: a related instance,
\* a manager (the related instances val.all() yields) or None
related(self, relation) ==
    CASE relation = N_owner /\ self.cls = "Foo" ->
            [kind |-> "one", obj |-> Load("TestProfile", self.owner)]
      [] relation = N_owner /\ self.cls = "Qux" ->
            [kind |-> "one", obj |-> Load("Baz", self.owner)]
      [] relation = N_baz /\ self.cls = "Bar" ->
            [kind |-> "one", obj |-> Load("Baz", self.baz)]
      [] relation = N_bars /\ self.cls = "Baz" ->
            [kind |-> "many",
             all |-> SortedIds({i \in DOMAIN objects["Bar"] :
                                          objects["Bar"][i].baz = self.id}),
             cls |-> "Bar"]
      [] relation = N_quxs /\ self.cls = "Baz" ->
            [kind |-> "many",
             all |-> SortedIds({i \in DOMAIN objects["Qux"] :
                                          objects["Qux"][i].owner = self.id}),
             cls |-> "Qux"]
      [] relation = N_foos /\ self.cls = "Qux" ->
            [kind |-> "many",
             all |-> SortedIds(self.foos \cap DOMAIN objects["Foo"]),
             cls |-> "Foo"]
      [] relation = N_foos /\ self.cls = "TestProfile" ->
            [kind |-> "many",
             all |-> SortedIds({i \in DOMAIN objects["Foo"] :
                                          objects["Foo"][i].owner = self.id}),
             cls |-> "Foo"]
      [] OTHER -> [kind |-> "None"]


\* set_user_auth that never lowers the tier of an authenticated user
set_user_auth_onlyraise(self, user) ==
    LET s1 == [self EXCEPT !._curr_user = user] IN
    IF is_authenticated(user)
    THEN IF is_owner(s1, user)
         THEN [s1 EXCEPT !._user_auth = OWNER]
         ELSE [s1 EXCEPT !._user_auth = IF @ > REGISTERED_USER THEN @
                                        ELSE REGISTERED_USER]
    ELSE s1

\* set_user_auth: the tier is raised for an authenticated user and is left
\* as it is for an unauthenticated one.
set_user_auth(self, user) ==
    LET s1 == [self EXCEPT !._curr_user = user] IN
    IF is_authenticated(user)
    THEN IF is_owner(s1, user)
         THEN [s1 EXCEPT !._user_auth = OWNER]
         ELSE [s1 EXCEPT !._user_auth = REGISTERED_USER]
    ELSE s1

\* the membership test of dictify_helper left out
in_fields_always(field, fields) == TRUE

\* filter(lambda prefix: field.startswith(prefix), self._reserved_prefixes)
matching_prefixes(field) ==
    SelectSeq(reserved_prefixes, LAMBDA prefix : startswith(field, prefix))

in_fields(field, fields) == \E i \in 1..Len(fields) : fields[i] = field

RECURSIVE dictify_with_auth(_, _, _, _)
RECURSIVE dictify_all(_, _, _, _)

\* [rel.dictify_with_auth(user, short_dict, True) for rel in val.all()]
dictify_all(cls, ids, user, short_dict) ==
    IF ids = <<>> THEN <<>>
    ELSE <<dictify_with_auth(Load(cls, Head(ids)), user, short_dict, TRUE).ret>>
         \o dictify_all(cls, Tail(ids), user, short_dict)

\* the body of the loop with the nested calls given the caller's own
\* ommit_related_fields in place of True
dictify_field_passing(self, field, ommit_related_fields, dictified_fields) ==
    LET prefix == matching_prefixes(field)
        nested(obj, short_dict) ==
            dictify_with_auth(obj, self._curr_user, short_dict,
                              ommit_related_fields).ret
        nested_all(val, short_dict) ==
            List([i \in 1..Len(val.all) |->
                    nested(Load(val.cls, val.all[i]), short_dict)])
    IN
    IF prefix = <<>>
    THEN setitem(dictified_fields, field, getattr(self, field))
    ELSE IF ~ommit_related_fields
    THEN LET pre == prefix[1]
             relation == slice_from(field, Len(pre) + 1)
             val == related(self, relation)
         IN
         IF val.kind = "None"
         THEN setitem(dictified_fields, relation, NoneVal)
         ELSE IF pre \in {FK_SHORT, ONE_TO_ONE_SHORT}
         THEN setitem(dictified_fields, relation, nested(val.obj, TRUE))
         ELSE IF pre \in {FK_LONG, ONE_TO_ONE_LONG}
         THEN setitem(dictified_fields, relation, nested(val.obj, FALSE))
         ELSE IF pre \in {REL_SHORT, MANY_TO_MANY_SHORT}
         THEN setitem(dictified_fields, relation, nested_all(val, TRUE))
         ELSE setitem(dictified_fields, relation, nested_all(val, FALSE))
    ELSE dictified_fields

\* the body of the loop with the nested calls made for the anonymous user
\* in place of self._curr_user
dictify_field_norequester(self, field, ommit_related_fields, dictified_fields) ==
    LET prefix == matching_prefixes(field) IN
    IF prefix = <<>>
    THEN setitem(dictified_fields, field, getattr(self, field))
    ELSE IF ~ommit_related_fields
    THEN LET pre == prefix[1]
             relation == slice_from(field, Len(pre) + 1)
             val == related(self, relation)
         IN
         IF val.kind = "None"
         THEN setitem(dictified_fields, relation, NoneVal)
         ELSE IF pre \in {FK_SHORT, ONE_TO_ONE_SHORT}
         THEN setitem(dictified_fields, relation,
                      dictify_with_auth(val.obj, "anon", TRUE, TRUE).ret)
         ELSE IF pre \in {FK_LONG, ONE_TO_ONE_LONG}
         THEN setitem(dictified_fields, relation,
                      dictify_with_auth(val.obj, "anon", FALSE, TRUE).ret)
         ELSE IF pre \in {REL_SHORT, MANY_TO_MANY_SHORT}
         THEN setitem(dictified_fields, relation,
                      List(dictify_all(val.cls, val.all, "anon", TRUE)))
         ELSE setitem(dictified_fields, relation,
                      List(dictify_all(val.cls, val.all, "anon", FALSE)))
    ELSE dictified_fields

\* the body of the loop of dictify_helper for one field that is in
\* auth_level_fields
dictify_field(self, field, ommit_related_fields, dictified_fields) ==
    LET prefix == matching_prefixes(field) IN
    IF prefix = <<>>
    THEN setitem(dictified_fields, field, getattr(self, field))
    ELSE IF ~ommit_related_fields
    THEN LET pre == prefix[1]
             relation == slice_from(field, Len(pre) + 1)
             val == related(self, relation)
         IN
         IF val.kind = "None"
         THEN setitem(dictified_fields, relation, NoneVal)
         ELSE IF pre \in {FK_SHORT, ONE_TO_ONE_SHORT}
         THEN setitem(dictified_fields, relation,
                      dictify_with_auth(val.obj, self._curr_user, TRUE, TRUE).ret)
         ELSE IF pre \in {FK_LONG, ONE_TO_ONE_LONG}
         THEN setitem(dictified_fields, relation,
                      dictify_with_auth(val.obj, self._curr_user, FALSE, TRUE).ret)
         ELSE IF pre \in {REL_SHORT, MANY_TO_MANY_SHORT}
         THEN setitem(dictified_fields, relation,
                      List(dictify_all(val.cls, val.all, self._curr_user, TRUE)))
         ELSE setitem(dictified_fields, relation,
                      List(dictify_all(val.cls, val.all, self._curr_user, FALSE)))
    ELSE dictified_fields

RECURSIVE dictify_helper_loop(_, _, _, _, _, _)
dictify_helper_loop(self, auth_level_fields, fields_to_include, ommit_related_fields, i, dictified_fields) ==
    IF i > Len(fields_to_include) THEN dictified_fields
    ELSE dictify_helper_loop(self, auth_level_fields, fields_to_include,
             ommit_related_fields, i + 1,
             IF in_fields(fields_to_include[i], auth_level_fields)
             THEN dictify_field(self, fields_to_include[i], ommit_related_fields,
                                dictified_fields)
             ELSE dictified_fields)

dictify_helper(self, auth_level_fields, fields_to_include, ommit_related_fields) ==
    dictify_helper_loop(self, auth_level_fields, fields_to_include,
                        ommit_related_fields, 1, EmptyDict)

dictify(self, fields_to_include, ommit_related_fields) ==
    LET pub == dictify_helper(self, public_fields(self.cls), fields_to_include,
                              ommit_related_fields)
        reg == dictify_helper(self, registered_user_fields(self.cls),
                              fields_to_include, ommit_related_fields)
        own == dictify_helper(self, owner_only_fields(self.cls), fields_to_include,
                              ommit_related_fields)
    IN
    IF self._user_auth >= REGISTERED_USER
    THEN IF self._user_auth = OWNER
         THEN update(update(pub, reg), own)
         ELSE update(pub, reg)
    ELSE pub

dictify_short(self, ommit_related_fields) ==
    dictify(self, short_description_fields(self.cls), ommit_related_fields)

dictify_long(self, ommit_related_fields) ==
    dictify(self,
            short_description_fields(self.cls) \o long_description_fields(self.cls),
            ommit_related_fields)

\* dictify_with_auth without the test of self.active
dictify_with_auth_noactive(self, user, short_dict, ommit_related_fields) ==
    LET s1 == set_user_auth(self, user) IN
    [self |-> s1,
     ret |-> Dict(IF short_dict THEN dictify_short(s1, ommit_related_fields)
                  ELSE dictify_long(s1, ommit_related_fields))]

\* dictify_with_auth with the document built before set_user_auth is called
dictify_with_auth_authafter(self, user, short_dict, ommit_related_fields) ==
    IF self.active = 0
    THEN [self |-> self, ret |-> NoneVal]
    ELSE [self |-> set_user_auth(self, user),
          ret |-> Dict(IF short_dict THEN dictify_short(self, ommit_related_fields)
                       ELSE dictify_long(self, ommit_related_fields))]

\* dictify_with_auth: the instance after the call and the value returned
dictify_with_auth(self, user, short_dict, ommit_related_fields) ==
    IF self.active = 0
    THEN [self |-> self, ret |-> NoneVal]
    ELSE LET s1 == set_user_auth(self, user) IN
         [self |-> s1,
          ret |-> Dict(IF short_dict THEN dictify_short(s1, ommit_related_fields)
                       ELSE dictify_long(s1, ommit_related_fields))]

\* ------------------------------------------------------------------ paths
FirstSegments == {"", "foo", "login", "logout", "csrftoken"}
LaterSegments == {"", "1", "login", "custom"}

RECURSIVE Tails(_)
Tails(n) ==
    IF n = 0 THEN {<<>>}
    ELSE {Append(t, s) : t \in Tails(n - 1), s \in LaterSegments}

\* the url_components lists of the classifier's specification
Paths ==
    {<<"", "api">>} \cup
    {<<"", "api", e>> \o t :
        e \in FirstSegments, t \in UNION {Tails(k) : k \in 0..(MaxComponents - 3)}}



\* -------------------------------------------------------------- responses
\* UnsafeJSONResponse(data): status 200; BadJSONResponse: status 404, data
\* None.  An exception no handler catches leaves the view: status 500 stands
\* for it, with the exception's name.
NoResponse == [status |-> 0, data |-> NoneVal, error |-> None]
valid_response(data) == [status |-> 200, data |-> data, error |-> None]
bad_request == [status |-> 404, data |-> NoneVal, error |-> None]
uncaught(exception) == [status |-> 500, data |-> NoneVal, error |-> exception]

Str(x) == [kind |-> "str", s |-> x]

\* the default of APIModel.pagination, which every model of the tests keeps
pagination == 10

\* ------------------------------------------ TestAPIView (tests/views.py)
registered_endpoints(name) ==
    CASE name = "profile" -> "TestProfile"
      [] name = "foo" -> "Foo"
      [] name = "qux" -> "Qux"
      [] OTHER -> None

public_create_endpoints == {"TestProfile"}
public_update_endpoints == {}

\* int(s) of a path segment or a page parameter: the number, or NotInt
\* where int() raises ValueError
NotInt == 0 - 1

IntOf(x) ==
    CASE x = "0" -> 0
      [] x = "1" -> 1
      [] x = "2" -> 2
      [] x = "3" -> 3
      [] x = "22" -> 22
      [] OTHER -> NotInt

\* get_model_instance inside _retrieve_model_instance: the instance, or None
\* (NoInstance) when cls.objects.get raises ValueError or ObjectDoesNotExist
retrieve_model_instance(cls, rest_param) ==
    IF IntOf(rest_param) = NotInt THEN NoInstance
    ELSE IF IntOf(rest_param) \notin DOMAIN objects[cls] THEN NoInstance
    ELSE Load(cls, IntOf(rest_param))

\* APIModel.get_all without the filter on active
get_all_unfiltered(cls, page_number, user) ==
    LET objs == SortedIds(DOMAIN objects[cls])
        count == Len(objs)
        hits == IF count > 1 THEN count ELSE 1
        num_pages == (hits + pagination - 1) \div pagination
        number == IF page_number = None THEN 1 ELSE IntOf(page_number)
        bottom == (number - 1) * pagination
        top == IF bottom + pagination >= count THEN count ELSE bottom + pagination
    IN
    IF number = NotInt THEN [exception |-> "PageNotAnInteger", ret |-> <<>>]
    ELSE IF number < 1 \/ number > num_pages
    THEN [exception |-> "EmptyPage", ret |-> <<>>]
    ELSE [exception |-> None,
          ret |-> [j \in 1..(top - bottom) |->
                     dictify_with_auth(Load(cls, objs[bottom + j]), user, TRUE, FALSE).ret]]

\* APIModel.get_all: the page of the active rows, each dictified short; an
\* exception of the Paginator is returned by name
get_all(cls, page_number, user) ==
    LET objs == SortedIds({i \in DOMAIN objects[cls] : objects[cls][i].active = 1})
        count == Len(objs)
        hits == IF count > 1 THEN count ELSE 1
        num_pages == (hits + pagination - 1) \div pagination
        number == IF page_number = None THEN 1 ELSE IntOf(page_number)
        bottom == (number - 1) * pagination
        top == IF bottom + pagination >= count THEN count ELSE bottom + pagination
    IN
    IF number = NotInt THEN [exception |-> "PageNotAnInteger", ret |-> <<>>]
    ELSE IF number < 1 \/ number > num_pages
    THEN [exception |-> "EmptyPage", ret |-> <<>>]
    ELSE [exception |-> None,
          ret |-> [j \in 1..(top - bottom) |->
                     dictify_with_auth(Load(cls, objs[bottom + j]), user, TRUE, FALSE).ret]]

\* api_custom_request: Qux answers "yo!", the default answers False
api_custom_request(cls) ==
    IF cls = "Qux" THEN Str("yo!") ELSE Val(0)

\* The effect of a handler: the response, the store and the session after
\* it, and the capabilities it called (none yet).
Outcome(resp, objs) ==
    [response |-> resp, objects |-> objs, session |-> session, invoked |-> {}]

\* the outcome, with the calls of caps recorded
Invoking(caps, out) == [out EXCEPT !.invoked = @ \cup caps]

\* get_json_response_for_instance saving the instance it serialized, as active
get_json_response_for_instance_saving(model_instance, user) ==
    LET d == dictify_with_auth(model_instance, user, FALSE, FALSE) IN
    Invoking({"dictify_with_auth"},
             Outcome(valid_response(d.ret),
                     [objects EXCEPT ![model_instance.cls][model_instance.id] =
                         Row([d.self EXCEPT !.active = 1])]))

get_json_response_for_instance(model_instance, user) ==
    Invoking({"dictify_with_auth"},
             Outcome(valid_response(
                         dictify_with_auth(model_instance, user, FALSE, FALSE).ret),
                     objects))

\* handle_custom_request without the test of the value returned
handle_custom_request_unchecked(cls) ==
    Invoking({"api_custom_request"},
             Outcome(valid_response(api_custom_request(cls)), objects))

handle_custom_request(cls) ==
    LET resp == api_custom_request(cls) IN
    Invoking({"api_custom_request"},
             Outcome(IF resp = Val(0) THEN bad_request ELSE valid_response(resp),
                     objects))

get_all_handler(cls, req) ==
    LET model_dict == get_all(cls, req.page, req.user) IN
    Invoking({"get_all"},
             Outcome(IF model_dict.exception # None THEN bad_request
                     ELSE valid_response(List(model_dict.ret)),
                     objects))

\* _get_instance answering 404 itself when the lookup fails
get_instance_nodelegate(cls, rest_param, req) ==
    LET model_instance == retrieve_model_instance(cls, rest_param) IN
    Invoking({"get_model_instance"},
             IF model_instance = NoInstance THEN Outcome(bad_request, objects)
             ELSE get_json_response_for_instance(model_instance, req.user))

get_instance(cls, rest_param, req) ==
    LET model_instance == retrieve_model_instance(cls, rest_param) IN
    Invoking({"get_model_instance"},
             IF model_instance = NoInstance THEN handle_custom_request(cls)
             ELSE get_json_response_for_instance(model_instance, req.user))

\* APIModel.api_update without the assignment of active and date_deactivated
APIModel_api_update_nodeactivate(self, req, now) ==
    [self |-> self, save |-> TRUE,
     ret |-> IF self.active # 0 THEN self ELSE NoInstance]

\* APIModel.api_update without the test of is_owner
APIModel_api_update_anyone(self, req, now) ==
    LET s1 == IF "deactivate" \in req.POST
              THEN [self EXCEPT !.active = 0, !.date_deactivated = now]
              ELSE self
    IN [self |-> s1, save |-> TRUE,
        ret |-> IF s1.active # 0 THEN s1 ELSE NoInstance]

\* APIModel.api_update: the instance after the call, whether save() ran, and
\* the value returned (self, or None once the instance is not active)
APIModel_api_update(self, req, now) ==
    LET s1 == IF is_owner(self, req.user) /\ "deactivate" \in req.POST
              THEN [self EXCEPT !.active = 0, !.date_deactivated = now]
              ELSE self
    IN [self |-> s1, save |-> TRUE,
        ret |-> IF s1.active # 0 THEN s1 ELSE NoInstance]

\* api_update of Foo and BarBaz with the default run first and the change
\* of f1 made after it, on the instance in memory only
api_update_mutateafter(self, req, now) ==
    IF self.cls = "TestProfile" THEN APIModel_api_update(self, req, now)
    ELSE IF ~is_owner(self, req.user)
    THEN [self |-> self, save |-> FALSE, ret |-> NoInstance]
    ELSE LET u == APIModel_api_update(self, req, now) IN
         [u EXCEPT !.ret = IF u.ret = NoInstance \/ "f1" \notin req.POST THEN u.ret
                           ELSE [u.ret EXCEPT !.f1 = @ + 1]]

\* api_update of the class of self: TestProfile keeps the default; Foo and
\* BarBaz return None for a non-owner, add 1 to f1 when the request carries
\* f1, and end with the default.
api_update(self, req, now) ==
    IF self.cls = "TestProfile" THEN APIModel_api_update(self, req, now)
    ELSE IF ~is_owner(self, req.user)
    THEN [self |-> self, save |-> FALSE, ret |-> NoInstance]
    ELSE APIModel_api_update(
             IF "f1" \in req.POST THEN [self EXCEPT !.f1 = @ + 1] ELSE self,
             req, now)

\* the value of a POST parameter that is present
PostValue == 1

\* the next id of the table of cls
NextId(cls) == Cardinality(DOMAIN objects[cls]) + 1

\* api_create of TestProfile (returns None) and of Foo (creates a row owned by
\* the requester's profile with f2 from the request; request.POST['f2']
\* raises KeyError when f2 is missing)
api_create(cls, req) ==
    IF cls = "Foo"
    THEN IF "f2" \notin req.POST
         THEN [exception |-> "KeyError", ret |-> NoInstance, objects |-> objects]
         ELSE LET row == [NewRow EXCEPT !.owner = test_profile(req.user),
                                        !.f2 = PostValue]
                  id == NextId(cls)
              IN [exception |-> None,
                  ret |-> Instance(cls, id, row),
                  objects |-> [objects EXCEPT ![cls] = @ @@ (id :> row)]]
    ELSE [exception |-> None, ret |-> NoInstance, objects |-> objects]

\* _post_handler without the authentication gate
post_handler_nogate(cls, rest_param, req, public_endpoints, create, now) ==
    IF create
    THEN LET c == api_create(cls, req) IN
         Invoking({"api_create"},
             IF c.exception = "KeyError" THEN Outcome(bad_request, objects)
             ELSE IF c.ret = NoInstance THEN Outcome(bad_request, c.objects)
             ELSE [get_json_response_for_instance(c.ret, req.user)
                   EXCEPT !.objects = c.objects])
    ELSE LET model_instance == retrieve_model_instance(cls, rest_param) IN
         Invoking({"get_model_instance"},
             IF model_instance = NoInstance
             THEN Outcome(uncaught("AttributeError"), objects)
             ELSE LET u == api_update(model_instance, req, now)
                      objs == IF u.save
                              THEN [objects EXCEPT ![cls][u.self.id] = Row(u.self)]
                              ELSE objects
                  IN Invoking({"api_update"},
                         IF u.ret = NoInstance THEN Outcome(bad_request, objs)
                         ELSE [get_json_response_for_instance(u.ret, req.user)
                               EXCEPT !.objects = objs]))

\* _post_handler; now is the value datetime.now() yields in api_update
post_handler(cls, rest_param, req, public_endpoints, create, now) ==
    IF ~is_authenticated(req.user) /\ cls \notin public_endpoints
    THEN Outcome(bad_request, objects)
    ELSE IF create
    THEN LET c == api_create(cls, req) IN
         Invoking({"api_create"},
             IF c.exception = "KeyError" THEN Outcome(bad_request, objects)
             ELSE IF c.ret = NoInstance THEN Outcome(bad_request, c.objects)
             ELSE [get_json_response_for_instance(c.ret, req.user)
                   EXCEPT !.objects = c.objects])
    ELSE LET model_instance == retrieve_model_instance(cls, rest_param) IN
         Invoking({"get_model_instance"},
             IF model_instance = NoInstance
             THEN Outcome(uncaught("AttributeError"), objects)
             ELSE LET u == api_update(model_instance, req, now)
                      objs == IF u.save
                              THEN [objects EXCEPT ![cls][u.self.id] = Row(u.self)]
                              ELSE objects
                  IN Invoking({"api_update"},
                         IF u.ret = NoInstance THEN Outcome(bad_request, objs)
                         ELSE [get_json_response_for_instance(u.ret, req.user)
                               EXCEPT !.objects = objs]))

\* ---------------------------------------------------------------- fixtures

\* the number of active Foo rows of the fixtures beyond Foo 1: with Foo 1
\* they fill the first page and leave one row for the second
MoreFoos == 10

\* The rows the tests start from: the profiles of u1, u2 and u3, an active Foo
\* of u1, a deactivated Foo of u2 and ten more active Foos of u3 (eleven
\* active Foos, as test_get_all counts them), a Bar and a Qux on one Baz.
\* date_deactivated = 0 is the null timestamp.
Fixture ==
    [cls \in Classes |->
        CASE cls = "TestProfile" -> (1 :> NewRow) @@ (2 :> NewRow) @@ (3 :> NewRow)
          [] cls = "Foo" ->
                (1 :> [NewRow EXCEPT !.owner = 1, !.f2 = 1]) @@
                (2 :> [NewRow EXCEPT !.owner = 2, !.f2 = 2, !.active = 0,
                                     !.date_deactivated = 1]) @@
                [i \in 3..(2 + MoreFoos) |-> [NewRow EXCEPT !.owner = 3, !.f2 = 2]]
          [] cls = "Bar" -> (1 :> [NewRow EXCEPT !.baz = 1])
          [] cls = "Baz" -> (1 :> NewRow)
          [] OTHER -> (1 :> [NewRow EXCEPT !.owner = 1, !.foos = {1}])]

\* number of model instances a caller holds in memory at a time
MaxHandles == 1
Handles == 1..MaxHandles

NoCall == [h |-> 0, user |-> None, short_dict |-> TRUE, ommit_related_fields |-> FALSE]

\* no direct dictify call
NoDictified ==
    [h |-> 0, op |-> None, auth_level_fields |-> <<>>, fields_to_include |-> <<>>,
     ommit_related_fields |-> FALSE, ret |-> NoneVal]

\* the last serialization call did not repeat the one before it
NoPrevious == [call |-> NoCall, result |-> NoneVal]

\* a request: the verb, request.path.split("/"), request.user, the page
\* parameter of request.GET (None when absent), the names of the parameters
\* of request.POST, and the username/password pair of request.POST (None
\* when either is missing)
Req(method, path, user, page, POST, credentials) ==
    [method |-> method, path |-> path, user |-> user, page |-> page,
     POST |-> POST, credentials |-> credentials]

\* no request is being handled
NoRequest == Req(None, <<>>, None, None, {}, None)

InitRequest == Req("GET", <<"", "api">>, "anon", None, {}, None)


\* ------------------------------------------------------ login and logout
\* django.contrib.auth.authenticate: the user of valid credentials, else None
authenticate(credentials) ==
    IF credentials \in {"u1", "u2", "u3"} THEN credentials ELSE None

\* user.is_active: u3 is a user that was made inactive
is_active(user) == user # "u3"

handle_login_request(req) ==
    IF req.credentials = None THEN Outcome(bad_request, objects)
    ELSE LET user == authenticate(req.credentials) IN
         IF user = None \/ ~is_active(user) THEN Outcome(bad_request, objects)
         ELSE [get_json_response_for_instance(
                   Load("TestProfile", test_profile(user)), user)
               EXCEPT !.session = user]

\* handle_logout_request without the call of logout(request)
handle_logout_request_nologout(req) == Outcome(valid_response(NoneVal), objects)

handle_logout_request(req) ==
    [Outcome(valid_response(NoneVal), objects) EXCEPT !.session = None]

handle_csrf_request(req) == Outcome(valid_response(NoneVal), objects)

handle_reserved_url_request(req, uv) ==
    CASE uv.RESERVED_URL = LOGIN -> handle_login_request(req)
      [] uv.RESERVED_URL = LOGOUT -> handle_logout_request(req)
      [] uv.RESERVED_URL = CSRFTOKEN -> handle_csrf_request(req)
      [] OTHER -> Outcome(bad_request, objects)

\* ---------------------------------------------------------------- APIView
\* _validate_request, given the APIUrl instance it built
validate_request(uv) ==
    IF ~is_valid_request(uv) THEN FALSE
    ELSE IF is_reserved_url(uv) THEN TRUE
    ELSE registered_endpoints(uv.REQUESTED_MODEL) # None

\* self._endpoint_model
endpoint_model(uv) == registered_endpoints(uv.REQUESTED_MODEL)

\* APIView.get
get(req, uv) ==
    IF ~validate_request(uv) THEN Outcome(bad_request, objects)
    ELSE IF is_reserved_url(uv) THEN handle_reserved_url_request(req, uv)
    ELSE IF is_model_request(uv)
    THEN get_all_handler(endpoint_model(uv), req)
    ELSE IF is_model_instance_request(uv)
    THEN get_instance(endpoint_model(uv), uv.REQUESTED_MODEL_INSTANCE, req)
    ELSE IF is_custom_request(uv)
    THEN handle_custom_request(endpoint_model(uv))
    ELSE Outcome(bad_request, objects)

\* APIView.post with the custom branch of get added
post_with_custom(req, uv, now) ==
    IF ~validate_request(uv) THEN Outcome(bad_request, objects)
    ELSE IF is_reserved_url(uv) THEN handle_reserved_url_request(req, uv)
    ELSE IF is_model_request(uv)
    THEN post_handler(endpoint_model(uv), None, req, public_create_endpoints,
                      TRUE, now)
    ELSE IF is_model_instance_request(uv)
    THEN post_handler(endpoint_model(uv), uv.REQUESTED_MODEL_INSTANCE, req,
                      public_update_endpoints, FALSE, now)
    ELSE IF is_custom_request(uv)
    THEN handle_custom_request(endpoint_model(uv))
    ELSE Outcome(bad_request, objects)

\* APIView.post
post(req, uv, now) ==
    IF ~validate_request(uv) THEN Outcome(bad_request, objects)
    ELSE IF is_reserved_url(uv) THEN handle_reserved_url_request(req, uv)
    ELSE IF is_model_request(uv)
    THEN post_handler(endpoint_model(uv), None, req, public_create_endpoints,
                      TRUE, now)
    ELSE IF is_model_instance_request(uv)
    THEN post_handler(endpoint_model(uv), uv.REQUESTED_MODEL_INSTANCE, req,
                      public_update_endpoints, FALSE, now)
    ELSE Outcome(bad_request, objects)

\* bound on the number of requests in progress at a time
MaxRequests == 2
Requests == 1..MaxRequests

\* ----------------------------------------------------- dispatcher requests
\* bound on the column f1, which every update that carries f1 increments
MaxF1 == 2
\* bound on the number of rows requests create
MaxCreated == 1

\* the values datetime.now() yields
Times == {2}

Pages == {None, "0", "2", "3", "x"}
Credentials == {None, "bad", "u1", "u2", "u3"}

Root == <<"", "api", "">>
EP(e) == <<"", "api", e, "">>
IP(e, k) == <<"", "api", e, k, "">>
CP(e, k, c) == <<"", "api", e, k, c, "">>

CollectionPaths == {EP("foo"), EP("qux"), EP("profile")}
InstancePaths ==
    {IP("foo", "1"), IP("foo", "2"), IP("foo", "22"), IP("foo", "x"),
     IP("qux", "1"), IP("qux", "custom"), IP("profile", "1")}
OtherPaths == {Root, EP("fob"), CP("foo", "1", "custom"), CP("qux", "1", "custom")}
ReservedPaths == {EP(LOGIN), EP(LOGOUT), EP(CSRFTOKEN)}

\* the parameter sets a POST to the path carries
PostSets(p) ==
    IF p = IP("foo", "1") THEN {{}, {"f1"}, {"deactivate"}, {"f1", "deactivate"}}
    ELSE IF p \in InstancePaths THEN {{}, {"deactivate"}}
    ELSE IF p = EP("foo") THEN {{}, {"f2"}}
    ELSE {{}}

GetRequests ==
    {Req("GET", p, u, None, {}, None) :
        p \in CollectionPaths \cup InstancePaths \cup OtherPaths \cup ReservedPaths,
        u \in Users}
    \cup {Req("GET", p, u, g, {}, None) : p \in CollectionPaths, u \in Users, g \in Pages}

\* No authenticated POST to /api/qux/ is among the requests (BarBaz.api_create
\* creates a Bar, not a Qux).  The anonymous requester, an owner of Qux 1 by
\* BarBaz.is_owner, posts f1 with deactivate to Qux 1 as well.
PostRequests ==
    ((UNION {{Req("POST", p, u, None, ps, None) : u \in Users, ps \in PostSets(p)} :
                p \in CollectionPaths \cup InstancePaths \cup OtherPaths})
         \ {Req("POST", EP("qux"), u, None, {}, None) : u \in {"u1", "u2"}})
    \cup {Req("POST", IP("qux", "1"), "anon", None, {"f1", "deactivate"}, None)}
    \cup {Req("POST", EP(LOGIN), "anon", None, {}, c) : c \in Credentials}
    \cup {Req("POST", p, u, None, {}, None) : p \in {EP(LOGOUT), EP(CSRFTOKEN)}, u \in Users}

\* ------------------------------------------------ dispatcher specification
Init ==
    /\ ADDITIONAL_FIELDS = <<>>
    /\ url_validator = APIUrlClass(<<>>)
    /\ request = NoRequest
    /\ response = NoResponse
    /\ objects = Fixture
    /\ instances = [h \in Handles |-> NoInstance]
    /\ call = NoCall
    /\ result = NoneVal
    /\ previous = NoPrevious
    /\ dictified = NoDictified
    /\ session = None
    /\ invoked = {}
    /\ inflight = [r \in Requests |-> NoInstance]

WithinBounds(uv, out) ==
    /\ Len(uv.ADDITIONAL_FIELDS) <= MaxAdditional
    /\ \A cls \in Classes :
          \A i \in DOMAIN out.objects[cls] : out.objects[cls][i].f1 <= MaxF1
    /\ Cardinality(DOMAIN out.objects["Foo"])
          <= Cardinality(DOMAIN Fixture["Foo"]) + MaxCreated

\* the view handles one request: as_view() builds a view for it, the view
\* builds its APIUrl, dispatches and returns the response
Handle(req, uv, out) ==
    /\ request = NoRequest
    /\ WithinBounds(uv, out)
    /\ request' = req
    /\ url_validator' = uv
    /\ ADDITIONAL_FIELDS' = uv.ADDITIONAL_FIELDS
    /\ response' = out.response
    /\ objects' = out.objects
    /\ session' = out.session
    /\ invoked' = out.invoked
    /\ UNCHANGED <<instances, call, result, previous, dictified, inflight>>

Get(req) ==
    LET uv == split_url_components(req.path, ADDITIONAL_FIELDS) IN
    Handle(req, uv, get(req, uv))

Post(req, now) ==
    LET uv == split_url_components(req.path, ADDITIONAL_FIELDS) IN
    Handle(req, uv, post(req, uv, now))

\* the response is sent; the request, its view and its APIUrl are dropped
Respond ==
    /\ request # NoRequest
    /\ request' = NoRequest
    /\ url_validator' = APIUrlClass(<<>>)
    /\ response' = NoResponse
    /\ invoked' = {}
    /\ UNCHANGED <<ADDITIONAL_FIELDS, objects, instances, call, result, previous,
                   dictified, session, inflight>>

Next ==
    \/ \E req \in GetRequests : Get(req)
    \/ \E req \in PostRequests, now \in Times : Post(req, now)
    \/ Respond

Spec == Init /\ [][Next]_vars

\* ------------------------------------------------- serializer specification
InitModel ==
    /\ ADDITIONAL_FIELDS = <<>>
    /\ url_validator = APIUrlClass(<<>>)
    /\ request = InitRequest
    /\ response = NoResponse
    /\ objects = Fixture
    /\ instances = [h \in Handles |-> NoInstance]
    /\ call = NoCall
    /\ result = NoneVal
    /\ previous = NoPrevious
    /\ dictified = NoDictified
    /\ session = None
    /\ invoked = {}
    /\ inflight = [r \in Requests |-> NoInstance]

\* instance = cls.objects.get(id=id): a caller loads a row into memory
GetObject(h, cls, id) ==
    /\ id \in DOMAIN objects[cls]
    /\ instances' = [instances EXCEPT ![h] = Load(cls, id)]
    /\ call' = NoCall
    /\ result' = NoneVal
    /\ previous' = NoPrevious
    /\ dictified' = NoDictified
    /\ UNCHANGED <<ADDITIONAL_FIELDS, url_validator, request, response, objects,
                   session, inflight, invoked>>

\* instance.dictify_with_auth(user, short_dict, ommit_related_fields)
DictifyWithAuth(h, user, short_dict, ommit_related_fields) ==
    /\ instances[h] # NoInstance
    /\ LET r == dictify_with_auth(instances[h], user, short_dict,
                                  ommit_related_fields)
       IN /\ instances' = [instances EXCEPT ![h] = r.self]
          /\ result' = r.ret
    /\ call' = [h |-> h, user |-> user, short_dict |-> short_dict,
                ommit_related_fields |-> ommit_related_fields]
    /\ previous' = IF call' = call THEN [call |-> call, result |-> result]
                   ELSE NoPrevious
    /\ dictified' = NoDictified
    /\ UNCHANGED <<ADDITIONAL_FIELDS, url_validator, request, response, objects,
                   session, inflight, invoked>>

\* names no model of the tests declares, as test_dictify uses
N_bar1 == <<"b", "a", "r", "1">>
N_bar2 == <<"b", "a", "r", "2">>

\* the field lists dictify is called with: none, undeclared names only, a
\* column and a relation that are not declared, and the declared long
\* description among undeclared names
FieldLists(cls) ==
    {<<>>,
     <<N_bar1, N_bar2>>,
     <<N_active, N_baz, N_foos>>,
     <<N_bar1>> \o long_description_fields(cls) \o <<N_owner, N_bars>>}

\* instance.dictify(fields_to_include, ommit_related_fields), as test_dictify
\* calls it on an instance
Dictify(h, fields_to_include, ommit_related_fields) ==
    /\ instances[h] # NoInstance
    /\ dictified' = [h |-> h, op |-> "dictify", auth_level_fields |-> <<>>,
                     fields_to_include |-> fields_to_include,
                     ommit_related_fields |-> ommit_related_fields,
                     ret |-> Dict(dictify(instances[h], fields_to_include,
                                          ommit_related_fields))]
    /\ call' = NoCall
    /\ result' = NoneVal
    /\ previous' = NoPrevious
    /\ UNCHANGED <<ADDITIONAL_FIELDS, url_validator, request, response, objects,
                   instances, session, inflight, invoked>>

\* relation directives test_dictify_helper asks for
N_fk_long_baz == <<"f", "k", "_", "l", "o", "n", "g", "_", "b", "a", "z">>
N_onetoone_long_owner == <<"o", "n", "e", "t", "o", "o", "n", "e", "_", "l", "o", "n", "g", "_", "o", "w", "n", "e", "r">>
N_rel_long_bars == <<"r", "e", "l", "_", "l", "o", "n", "g", "_", "b", "a", "r", "s">>
N_rel_long_foos == <<"r", "e", "l", "_", "l", "o", "n", "g", "_", "f", "o", "o", "s">>
N_m2m_short_foos == <<"m", "2", "m", "_", "s", "h", "o", "r", "t", "_", "f", "o", "o", "s">>
N_m2m_long_foos == <<"m", "2", "m", "_", "l", "o", "n", "g", "_", "f", "o", "o", "s">>

\* the names of no attribute that test_dictify_helper asks for: a plain one
\* and one behind a relation directive
N_test == <<"t", "e", "s", "t">>
N_fk_short_test == <<"f", "k", "_", "s", "h", "o", "r", "t", "_", "t", "e", "s", "t">>

\* a name that begins with the characters of fk_short and goes on without
\* the separator
N_fk_shortest == <<"f", "k", "_", "s", "h", "o", "r", "t", "e", "s", "t">>

\* the one-field tuples test_dictify_helper passes as auth_level_fields and
\* as fields_to_include, and the tuple of N_fk_shortest
HelperFields ==
    {<<N_fk_short_baz>>, <<N_fk_long_baz>>, <<N_onetoone_short_owner>>,
     <<N_onetoone_long_owner>>, <<N_rel_short_bars>>, <<N_rel_long_bars>>,
     <<N_rel_long_foos>>, <<N_m2m_short_foos>>, <<N_m2m_long_foos>>,
     <<N_id>>, <<N_test>>, <<N_fk_short_test>>, <<N_fk_shortest>>}

\* instance.dictify_helper(fields, fields, ommit_related_fields) after
\* set_user_auth, as test_dictify_helper calls it
DictifyHelper(h, fields, ommit_related_fields) ==
    /\ instances[h] # NoInstance
    /\ instances[h]._curr_user # None
    /\ dictified' = [h |-> h, op |-> "dictify_helper", auth_level_fields |-> fields,
                     fields_to_include |-> fields,
                     ommit_related_fields |-> ommit_related_fields,
                     ret |-> Dict(dictify_helper(instances[h], fields, fields,
                                                 ommit_related_fields))]
    /\ call' = NoCall
    /\ result' = NoneVal
    /\ previous' = NoPrevious
    /\ UNCHANGED <<ADDITIONAL_FIELDS, url_validator, request, response, objects,
                   instances, session, inflight, invoked>>

NextModel ==
    \/ \E h \in Handles, cls \in Classes, id \in 1..2 : GetObject(h, cls, id)
    \/ \E h \in Handles, user \in Users, short_dict \in BOOLEAN,
          ommit_related_fields \in BOOLEAN :
            DictifyWithAuth(h, user, short_dict, ommit_related_fields)

SpecModel == InitModel /\ [][NextModel]_vars

\* The direct calls of dictify and dictify_helper, as test_dictify and
\* test_dictify_helper make them. Both read the instance and the store and
\* assign nothing, so the calls on one instance say all there is: this
\* specification holds one instance, in the first handle, and gives it its
\* tier and requester by dictify_with_auth.
FirstHandle == CHOOSE h \in Handles : \A g \in Handles : h <= g

NextDictify ==
    \E h \in {FirstHandle} :
        \/ \E fields \in HelperFields, ommit_related_fields \in BOOLEAN :
              DictifyHelper(h, fields, ommit_related_fields)
        \/ \E cls \in Classes, id \in 1..2 : GetObject(h, cls, id)
        \/ \E ommit_related_fields \in BOOLEAN :
              \E fields_to_include \in FieldLists(instances[h].cls) :
                Dictify(h, fields_to_include, ommit_related_fields)
        \/ \E user \in Users, short_dict \in BOOLEAN,
              ommit_related_fields \in BOOLEAN :
                DictifyWithAuth(h, user, short_dict, ommit_related_fields)

SpecDictify == InitModel /\ [][NextDictify]_vars

\* ------------------------------------------------- classifier specification
InitUrl ==
    /\ ADDITIONAL_FIELDS = <<>>
    /\ url_validator = APIUrlClass(<<>>)
    /\ request = InitRequest
    /\ response = NoResponse
    /\ objects = Fixture
    /\ instances = [h \in Handles |-> NoInstance]
    /\ call = NoCall
    /\ result = NoneVal
    /\ previous = NoPrevious
    /\ dictified = NoDictified
    /\ session = None
    /\ invoked = {}
    /\ inflight = [r \in Requests |-> NoInstance]

\* splitter = APIUrl(request), as test_split_url_components does
NewAPIUrl(url_components) ==
    LET self == split_url_components(url_components, ADDITIONAL_FIELDS) IN
    /\ Len(self.ADDITIONAL_FIELDS) <= MaxAdditional
    /\ url_validator' = self
    /\ ADDITIONAL_FIELDS' = self.ADDITIONAL_FIELDS
    /\ request' = Req("GET", url_components, "anon", None, {}, None)
    /\ UNCHANGED <<response, objects, instances, call, result, previous, dictified,
                   session, inflight, invoked>>

NextUrl == \E p \in Paths : NewAPIUrl(p)

SpecUrl == InitUrl /\ [][NextUrl]_vars

\* ---------------------------------------------------- reads specification
\* The reads of the layer side by side: the view handles GET requests for
\* collections and instances, with the owner's updates of Foo 1 in between
\* so that the reads meet the row changed and deactivated, and a caller
\* holds an instance and serializes it with dictify_with_auth.
ReadRequests ==
    {req \in GetRequests :
        /\ req.path \in CollectionPaths \cup InstancePaths
        /\ req.page = None}

UpdateRequests ==
    {Req("POST", IP("foo", "1"), "u1", None, ps, None) : ps \in PostSets(IP("foo", "1"))}

NextRead ==
    \/ \E req \in ReadRequests : Get(req)
    \/ \E req \in UpdateRequests, now \in Times : Post(req, now)
    \/ Respond
    \/ \E h \in {FirstHandle} :
          \/ \E cls \in Classes, id \in 1..2 : GetObject(h, cls, id)
          \/ \E user \in Users, short_dict \in BOOLEAN,
                ommit_related_fields \in BOOLEAN :
                  DictifyWithAuth(h, user, short_dict, ommit_related_fields)

SpecRead == Init /\ [][NextRead]_vars

\* ------------------------------------------ concurrent-requests specification
\* Requests handled at the same time, each by a view of its own. A request
\* for an instance first loads its copy of the row (_retrieve_model_instance)
\* and then either serializes it (GET) or updates and saves it (POST); other
\* requests take their steps in between. The requester and the POST data
\* are read after the load only (the authentication gate lets every
\* authenticated requester through), so they are drawn at the second step.
InstanceKeys == {<<"Foo", "1">>, <<"Foo", "2">>, <<"Qux", "1">>}

\* the requesters the authentication gate of an update lets through
Authenticated == {user \in Users : is_authenticated(user)}

\* model_instance = self._retrieve_model_instance()
Retrieve(r, cls, rest_param) ==
    /\ inflight[r] = NoInstance
    /\ retrieve_model_instance(cls, rest_param) # NoInstance
    /\ inflight' = [inflight EXCEPT ![r] = retrieve_model_instance(cls, rest_param)]
    /\ UNCHANGED <<ADDITIONAL_FIELDS, url_validator, request, response, objects,
                   instances, call, result, previous, dictified, session, invoked>>

\* _get_instance after the load: the copy is serialized and dropped
Serialize(r, user) ==
    /\ inflight[r] # NoInstance
    /\ response' = get_json_response_for_instance(inflight[r], user).response
    /\ inflight' = [inflight EXCEPT ![r] = NoInstance]
    /\ UNCHANGED <<ADDITIONAL_FIELDS, url_validator, request, objects,
                   instances, call, result, previous, dictified, session, invoked>>

\* _post_handler after the load: api_update changes the copy and saves all
\* of it, and the response is made of what api_update returns
Update(r, user, POST, now) ==
    /\ inflight[r] # NoInstance
    /\ LET self == inflight[r]
           u == api_update(self, Req("POST", <<>>, user, None, POST, None), now)
       IN /\ u.self.f1 <= MaxF1
          /\ objects' = IF u.save
                        THEN [objects EXCEPT ![self.cls][self.id] = Row(u.self)]
                        ELSE objects
          /\ response' = IF u.ret = NoInstance THEN bad_request
                         ELSE get_json_response_for_instance(u.ret, user).response
    /\ inflight' = [inflight EXCEPT ![r] = NoInstance]
    /\ UNCHANGED <<ADDITIONAL_FIELDS, url_validator, request,
                   instances, call, result, previous, dictified, session, invoked>>

NextConcurrent ==
    \/ \E r \in Requests, k \in InstanceKeys : Retrieve(r, k[1], k[2])
    \/ \E r \in Requests, user \in Users : Serialize(r, user)
    \/ \E r \in Requests, user \in Authenticated, now \in Times :
          \E POST \in PostSets(IP("foo", "1")) : Update(r, user, POST, now)

SpecConcurrent == Init /\ [][NextConcurrent]_vars

\* ---------------------------------------------------------------- claims
\* What a path says by itself, read off the path as the specification's
\* classifier rules read it (positions after the two skipped segments).
PathSegment(p, n) == IF Len(p) >= n + 2 THEN p[n + 2] ELSE ""
PathReserved(p) == PathSegment(p, 1) \in {"login", "logout", "csrftoken"}
PathEndpoint(p) ==
    IF PathSegment(p, 1) # "" /\ ~PathReserved(p) THEN PathSegment(p, 1) ELSE None
PathKey(p) == IF PathSegment(p, 2) # "" THEN PathSegment(p, 2) ELSE None
PathNonEmpty(s) == s # ""
PathCustom(p) ==
    IF Len(p) >= 5 THEN SelectSeq(SubSeq(p, 5, Len(p)), PathNonEmpty) ELSE <<>>
PathIntent(p) ==
    IF PathReserved(p) THEN "ReservedAction"
    ELSE IF PathEndpoint(p) = None THEN "Invalid"
    ELSE IF PathCustom(p) # <<>> THEN "CustomRequest"
    ELSE IF PathKey(p) = None THEN "CollectionRequest"
    ELSE "InstanceRequest"

\* the last n elements of a list
Suffix(s, n) == SubSeq(s, Len(s) - n + 1, Len(s))

\* C1: the intent classified for a request depends only on that request's
\* own path: it is the intent the same path gets when it is classified with
\* no custom segment of another request visible.
C1_IntentOnlyFromOwnPath ==
    Intent(url_validator) = Intent(split_url_components(request.path, <<>>))

\* C5: for every path that is no reserved action the classifier records the
\* segment at the first position as endpoint, the one at the second position
\* as instance key, the later non-empty segments in order as custom segments,
\* and yields Invalid / CollectionRequest / InstanceRequest / CustomRequest
\* by the rules of the specification.
C5_ClassifiedByRules ==
    LET p == request.path IN
    ~PathReserved(p) =>
        /\ url_validator.REQUESTED_MODEL = PathEndpoint(p)
        /\ url_validator.REQUESTED_MODEL_INSTANCE = PathKey(p)
        /\ url_validator.ADDITIONAL_FIELDS = PathCustom(p)
        /\ Intent(url_validator) = PathIntent(p)

\* C6: a path whose first segment is exactly login, logout or csrftoken is a
\* ReservedAction of that name whatever follows, with no endpoint and no
\* instance key recorded and (second conjunct, on the step) no custom segment
\* appended; a reserved token at a later position is the instance key or a
\* custom segment, never a reserved action.
C6_ReservedState ==
    LET p == request.path IN
    IF PathReserved(p)
    THEN /\ Intent(url_validator) = "ReservedAction"
         /\ url_validator.RESERVED_URL = PathSegment(p, 1)
         /\ url_validator.REQUESTED_MODEL = None
         /\ url_validator.REQUESTED_MODEL_INSTANCE = None
    ELSE /\ Intent(url_validator) # "ReservedAction"
         /\ url_validator.RESERVED_URL = None
         /\ url_validator.REQUESTED_MODEL_INSTANCE = PathKey(p)
         /\ Len(url_validator.ADDITIONAL_FIELDS) >= Len(PathCustom(p))
         /\ Suffix(url_validator.ADDITIONAL_FIELDS, Len(PathCustom(p))) = PathCustom(p)

C6_ReservedAction ==
    /\ []C6_ReservedState
    /\ [][PathReserved(request'.path) => ADDITIONAL_FIELDS' = ADDITIONAL_FIELDS]_vars

\* C6 witness: a reserved first segment followed by a key and a custom
\* segment was classified while custom segments of an earlier request exist.
C6_Witness ==
    /\ request.path = <<"", "api", "login", "1", "custom">>
    /\ Intent(url_validator) = "ReservedAction"
    /\ ADDITIONAL_FIELDS # <<>>

\* The serializer's rules as the specification states them: the directive
\* prefix is stripped together with the separator, the requester's tier is
\* Public / RegisteredUser / Owner by authentication and ownership, and the
\* tier accumulates the public, registered and owner-only field sets.
SpecStripped(field) ==
    LET m == SelectSeq(reserved_prefixes,
                       LAMBDA prefix : startswith(field, prefix \o <<"_">>))
    IN IF m = <<>> THEN field ELSE slice_from(field, Len(m[1]) + 1)

SpecTier(self, user) ==
    IF ~is_authenticated(user) THEN PUBLIC
    ELSE IF is_owner(self, user) THEN OWNER
    ELSE REGISTERED_USER

Elems(fields) == {fields[i] : i \in 1..Len(fields)}

SpecTierFields(cls, tier) ==
    Elems(public_fields(cls))
    \cup (IF tier >= REGISTERED_USER THEN Elems(registered_user_fields(cls)) ELSE {})
    \cup (IF tier = OWNER THEN Elems(owner_only_fields(cls)) ELSE {})

SpecVerbosityFields(cls, short_dict) ==
    IF short_dict THEN Elems(short_description_fields(cls))
    ELSE Elems(short_description_fields(cls)) \cup Elems(long_description_fields(cls))

\* a serialization call was made and the instance it was made on is held
Called == call.h \in Handles

\* C2: an unauthenticated requester is resolved to Public and receives only
\* public fields, whatever calls were made on the same instance before.
C2_UnauthenticatedIsPublic ==
    (Called /\ call.user = "anon" /\ result.kind = "dict") =>
        /\ instances[call.h]._user_auth = PUBLIC
        /\ DOMAIN result.d \subseteq
              {SpecStripped(f) : f \in Elems(public_fields(instances[call.h].cls))}

\* C3: dictify_with_auth on an instance whose active flag is false returns
\* None, for every requester, verbosity and value of the suppress flag.
C3_InactiveIsNone ==
    (Called /\ instances[call.h].active = 0) => result = NoneVal

\* C3 witness: the owner of a deactivated Foo asked for its long
\* serialization and got None.
C3_Witness ==
    /\ Called
    /\ instances[call.h].cls = "Foo"
    /\ instances[call.h].active = 0
    /\ call.user = "u2"
    /\ is_owner(instances[call.h], call.user)
    /\ ~call.short_dict
    /\ result = NoneVal

\* C4: for an active instance serialized with relation expansion allowed, the
\* keys of the document are exactly the stripped names of the fields of the
\* requested verbosity that are in the field set accumulated for the
\* requester's tier.
C4_KeysAreTierFields ==
    (Called /\ result.kind = "dict" /\ ~call.ommit_related_fields) =>
        LET self == instances[call.h] IN
        DOMAIN result.d =
            {SpecStripped(f) :
                f \in SpecVerbosityFields(self.cls, call.short_dict)
                      \cap SpecTierFields(self.cls, SpecTier(self, call.user))}

\* The request in hand is a GET / POST whose intent is InstanceRequest on a
\* registered endpoint; cls and key are its endpoint type and instance key.
IsInstanceRequest(method, req, uv) ==
    /\ req.method = method
    /\ validate_request(uv)
    /\ Intent(uv) = "InstanceRequest"

\* the authentication gate of _post_handler
PassesGate(user, cls, public_endpoints) ==
    is_authenticated(user) \/ cls \in public_endpoints

\* an instance key that resolves to no row of any table
MissingKey == "22"

\* C7: a GET InstanceRequest whose key resolves to a deactivated instance has
\* the outcome of a GET InstanceRequest on the same endpoint, by the same
\* requester, whose key resolves to no instance (404, empty body), when the
\* endpoint's custom-request capability declines.
C7_DeactivatedLikeMissing ==
    IsInstanceRequest("GET", request, url_validator) =>
        LET cls == endpoint_model(url_validator)
            found == retrieve_model_instance(cls, url_validator.REQUESTED_MODEL_INSTANCE)
        IN (found # NoInstance /\ found.active = 0 /\ api_custom_request(cls) = Val(0))
           => /\ retrieve_model_instance(cls, MissingKey) = NoInstance
              /\ response = get_instance(cls, MissingKey, request).response
              /\ response = bad_request

\* C8: a POST InstanceRequest by a requester who passes the authentication
\* gate, whose key resolves to no instance, ends in the 404 empty-body outcome.
C8_UpdateOfMissingIs404 ==
    IsInstanceRequest("POST", request, url_validator) =>
        LET cls == endpoint_model(url_validator) IN
        (/\ PassesGate(request.user, cls, public_update_endpoints)
         /\ retrieve_model_instance(cls, url_validator.REQUESTED_MODEL_INSTANCE)
               = NoInstance)
        => response = bad_request

\* C9: every request the dispatcher handled ended in status 200 with a JSON
\* body or in status 404 with the empty body, and in no uncaught error.
C9_Only200Or404 ==
    request # NoRequest =>
        /\ response.error = None
        /\ response.status \in {200, 404}
        /\ response.status = 404 => response.data = NoneVal

\* the instance a POST InstanceRequest with the deactivate flag is about, in
\* the store as it is before the request, when it is active and is_owner
\* holds for the requester
DeactivatedByOwner(req, uv) ==
    /\ IsInstanceRequest("POST", req, uv)
    /\ "deactivate" \in req.POST
    /\ LET found == retrieve_model_instance(endpoint_model(uv),
                                            uv.REQUESTED_MODEL_INSTANCE)
       IN /\ found # NoInstance
          /\ found.active = 1
          /\ is_owner(found, req.user)

\* after the request the row is inactive with a timestamp and the response is
\* the 404 empty-body outcome
NowDeactivated(uv) ==
    LET row == objects'[endpoint_model(uv)][IntOf(uv.REQUESTED_MODEL_INSTANCE)] IN
    /\ row.active = 0
    /\ row.date_deactivated # 0
    /\ response' = bad_request

\* C10 as claimed: after a POST InstanceRequest with the deactivate flag on an
\* active instance by a requester for whom is_owner is true, the persisted
\* instance is inactive with a non-null timestamp and the response is 404.
C10_OwnerDeactivates_Original ==
    [][DeactivatedByOwner(request', url_validator') => NowDeactivated(url_validator')]_vars

\* C10 amended: the same, for a requester who also passes the authentication
\* gate of the update (authenticated, or the type is in public_update_endpoints).
C10_OwnerDeactivates ==
    [][(/\ DeactivatedByOwner(request', url_validator')
        /\ PassesGate(request'.user, endpoint_model(url_validator'),
                      public_update_endpoints))
       => NowDeactivated(url_validator')]_vars

\* C10 witness: the owner of Foo 1 posted deactivate to /api/foo/1/, the row
\* is inactive and stamped, and the response is 404.
C10_Witness ==
    /\ request = Req("POST", IP("foo", "1"), "u1", None, {"deactivate"}, None)
    /\ Intent(url_validator) = "InstanceRequest"
    /\ objects["Foo"][1].active = 0
    /\ objects["Foo"][1].date_deactivated # 0
    /\ response = bad_request

\* the allow-list _post_handler is given for a POST of this intent
AllowList(uv) ==
    IF Intent(uv) = "CollectionRequest" THEN public_create_endpoints
    ELSE public_update_endpoints

\* a POST create or update by an unauthenticated requester on an endpoint type
\* that is not in the allow-list of the operation
Gated(req, uv) ==
    /\ req.method = "POST"
    /\ validate_request(uv)
    /\ Intent(uv) \in {"CollectionRequest", "InstanceRequest"}
    /\ ~is_authenticated(req.user)
    /\ endpoint_model(uv) \notin AllowList(uv)

\* C11: a POST create or update by an unauthenticated requester on a type that
\* is not in the corresponding allow-list gets the 404 empty-body outcome,
\* calls no capability (create, lookup, update) and leaves every record as it
\* was.
C11_GateRefuses ==
    [][Gated(request', url_validator')
       => /\ response' = bad_request
          /\ invoked' = {}
          /\ objects' = objects]_vars

\* C11 witness: an anonymous POST /api/foo/ with f2 was refused
C11_Witness ==
    /\ request = Req("POST", EP("foo"), "anon", None, {"f2"}, None)
    /\ Gated(request, url_validator)
    /\ response = bad_request
    /\ invoked = {}

\* two consecutive serialization calls on one held instance, with the same
\* verbosity and the same suppress-relations flag
ConsecutiveCalls ==
    /\ Called
    /\ call'.h = call.h
    /\ call'.short_dict = call.short_dict
    /\ call'.ommit_related_fields = call.ommit_related_fields

\* C12: for the same active instance, verbosity and suppress-relations flag,
\* a requester whose tier is at least the tier of another requester is given a
\* superset of the keys given to the other.
C12_TierMonotone ==
    [][(/\ ConsecutiveCalls
        /\ result.kind = "dict"
        /\ result'.kind = "dict"
        /\ SpecTier(instances[call.h], call'.user)
              >= SpecTier(instances[call.h], call.user))
       => DOMAIN result.d \subseteq DOMAIN result'.d]_vars

\* C13: two consecutive dictify_with_auth calls on the same instance with the
\* same requester, verbosity and suppress-relations flag, the persisted state
\* unchanged in between, return identical documents.
C13_Idempotent ==
    (Called /\ previous.call = call) => result = previous.result

\* C13 witness: the owner of Foo 1 asked twice for its long serialization on
\* one instance and got a document both times.
C13_Witness ==
    /\ Called
    /\ previous.call = call
    /\ call.user = "u1"
    /\ ~call.short_dict
    /\ instances[call.h].cls = "Foo"
    /\ result.kind = "dict"
    /\ result = previous.result

\* the fields declared in a tier set of the type
Declared(cls) ==
    Elems(public_fields(cls)) \cup Elems(registered_user_fields(cls))
        \cup Elems(owner_only_fields(cls))

\* a direct dictify call was made on a held instance
Dictified == dictified.h \in Handles /\ dictified.op = "dictify"

\* key is what the field yields: the field's name, or the end of it that
\* follows a relation directive
YieldedBy(key, field) ==
    /\ Len(key) <= Len(field)
    /\ key = Suffix(field, Len(key))

\* C14: every key of the document dictify returns comes from a requested field
\* that is declared in a tier set of the instance's type, whatever the tier
\* left on the instance and whatever field list is requested; a field list
\* with no declared field (the empty list too) yields the empty document.
C14_OnlyDeclaredFields ==
    Dictified =>
        LET cls == instances[dictified.h].cls
            asked == Elems(dictified.fields_to_include) \cap Declared(cls)
        IN /\ dictified.ret.kind = "dict"
           /\ \A key \in DOMAIN dictified.ret.d : \E f \in asked : YieldedBy(key, f)
           /\ asked = {} => dictified.ret = Dict(EmptyDict)

\* C14 witness: an instance at the owner's tier was asked for its declared
\* long description among undeclared names and returned a document with keys.
C14_Witness ==
    /\ Dictified
    /\ instances[dictified.h]._user_auth = OWNER
    /\ instances[dictified.h].cls = "Foo"
    /\ N_bar1 \in Elems(dictified.fields_to_include)
    /\ N_owner \in Elems(dictified.fields_to_include)
    /\ DOMAIN dictified.ret.d # {}

\* the type of the instances a relation of self leads to
RelatedClass(self, relation) ==
    LET val == related(self, relation) IN
    IF val.kind = "one" THEN val.obj.cls ELSE val.cls

\* the keys the relation-directive fields of a type yield
RelationKeys(cls) ==
    {SpecStripped(f) : f \in {g \in Declared(cls) : matching_prefixes(g) # <<>>}}

\* a nested document of an instance of cls: None, or a document without a key
\* of a relation of cls and with plain values only
Flat(doc, cls) ==
    doc.kind = "dict" =>
        /\ DOMAIN doc.d \cap RelationKeys(cls) = {}
        /\ \A k \in DOMAIN doc.d : doc.d[k].kind \in {"val", "None"}

\* every document nested in doc, the document of self, is flat
OneLevel(self, doc) ==
    doc.kind = "dict" =>
        \A key \in DOMAIN doc.d :
            LET v == doc.d[key] IN
            /\ v.kind = "dict" => Flat(v, RelatedClass(self, key))
            /\ v.kind = "list" =>
                  \A i \in 1..Len(v.l) : Flat(v.l[i], RelatedClass(self, key))

\* C15: serialization returns, also for types that reference each other, and
\* every document nested for a relation field has no key that comes from a
\* relation-directive field of the related instance, and nothing nested in it.
C15_OneLevelDeep ==
    /\ Called => OneLevel(instances[call.h], result)
    /\ dictified.h \in Handles => OneLevel(instances[dictified.h], dictified.ret)

\* C15 witness: a profile was asked, for its owner, for the long documents
\* of its foos; Foo declares the relation back to the profile, and the nested
\* document of the Foo has the owner-only key f2 and no key owner.
C15_Witness ==
    /\ dictified.h \in Handles
    /\ instances[dictified.h].cls = "TestProfile"
    /\ dictified.fields_to_include = <<N_rel_long_foos>>
    /\ dictified.ret.d[N_foos].kind = "list"
    /\ Len(dictified.ret.d[N_foos].l) > 0
    /\ N_f2 \in DOMAIN dictified.ret.d[N_foos].l[1].d
    /\ N_owner \notin DOMAIN dictified.ret.d[N_foos].l[1].d

\* the keys of the long document of self for the requester, by the rules:
\* the long-verbosity fields that are in the field set of the requester's tier
SpecLongKeys(self, user) ==
    {SpecStripped(f) :
        f \in SpecVerbosityFields(self.cls, FALSE)
              \cap SpecTierFields(self.cls, SpecTier(self, user))}

\* what the custom path yields for the type
CustomPathResponse(cls) ==
    IF api_custom_request(cls) \in {Val(0), NoneVal} THEN bad_request
    ELSE valid_response(api_custom_request(cls))

SpecShortKeys(self, user) ==
    {SpecStripped(f) :
        f \in SpecVerbosityFields(self.cls, TRUE)
              \cap SpecTierFields(self.cls, SpecTier(self, user))}

\* the ids of the active rows of cls, in the order of the ids
ActiveIds(cls) == SortedIds({i \in DOMAIN objects[cls] : objects[cls][i].active = 1})

\* the number of the last page of n rows in pages of s: one page when n = 0
LastPage(n, s) == IF n = 0 THEN 1 ELSE (n + s - 1) \div s

\* the request in hand is a GET CollectionRequest on a registered endpoint
IsCollectionGet ==
    /\ request.method = "GET"
    /\ validate_request(url_validator)
    /\ Intent(url_validator) = "CollectionRequest"

IsCustomGet ==
    /\ request.method = "GET"
    /\ validate_request(url_validator)
    /\ Intent(url_validator) = "CustomRequest"

\* C18: a GET CustomRequest calls the custom-request capability of the
\* endpoint type and nothing else; a falsy result answers 404 with the empty
\* body, any other result is the body of the 200 response as it was returned,
\* not serialized; a type that does not override the capability answers 404.
C18_GetCustom ==
    IsCustomGet =>
        LET cls == endpoint_model(url_validator) IN
        /\ invoked = {"api_custom_request"}
        /\ IF cls = "Qux" THEN response = valid_response(Str("yo!"))
           ELSE /\ api_custom_request(cls) = Val(0)
                /\ response = bad_request

\* C18 witness: GET /api/qux/1/custom/ answered with what Qux returned
C18_Witness ==
    /\ IsCustomGet
    /\ request.path = CP("qux", "1", "custom")
    /\ invoked = {"api_custom_request"}
    /\ response = valid_response(Str("yo!"))

\* a request with no handler: its intent is Invalid, its endpoint name is not
\* in the registry, or it is a POST with custom segments
Unhandled(req, uv) ==
    /\ req # NoRequest
    /\ \/ Intent(uv) = "Invalid"
       \/ /\ Intent(uv) \in {"CollectionRequest", "InstanceRequest", "CustomRequest"}
          /\ registered_endpoints(uv.REQUESTED_MODEL) = None
       \/ /\ req.method = "POST"
          /\ Intent(uv) = "CustomRequest"

\* C19: a request whose intent is Invalid, whose endpoint name is absent from
\* the registry, or whose verb and intent have no handler (POST with custom
\* segments) gets the 404 empty-body outcome; no capability (list, lookup,
\* create, update, custom request) is called for it and nothing changes.
C19_UnhandledIs404 ==
    [][Unhandled(request', url_validator')
       => /\ response' = bad_request
          /\ invoked' = {}
          /\ objects' = objects
          /\ session' = session]_vars

\* C19 witness: a POST to /api/qux/1/custom/ by a logged-in user, on the type
\* that has a custom-request capability, was answered 404 with nothing called
C19_Witness ==
    /\ request = Req("POST", CP("qux", "1", "custom"), "u1", None, {}, None)
    /\ Unhandled(request, url_validator)
    /\ endpoint_model(url_validator) = "Qux"
    /\ response = bad_request
    /\ invoked = {}

\* the credentials that authenticate an active user: the user's own name
\* stands for the user's username and password
ValidLogins == {"u1", "u2"}

\* the request in hand is for the reserved action
IsReserved(req, uv, action) ==
    /\ req # NoRequest
    /\ Intent(uv) = "ReservedAction"
    /\ uv.RESERVED_URL = action

\* C20: a login with a missing username or password, with credentials that do
\* not authenticate, or for a user who is not active answers 404 with the
\* empty body and establishes no session; a login with the valid credentials
\* of an active user establishes the session of that user and answers 200
\* with the long serialization of the user's profile for that user; a logout
\* ends the session and answers 200 with the empty body; all of it for GET
\* and POST alike.
C20_LoginLogout ==
    [][/\ IsReserved(request', url_validator', LOGIN) =>
            IF request'.credentials \in ValidLogins
            THEN LET user == request'.credentials
                     profile == Load("TestProfile", test_profile(user))
                 IN /\ session' = user
                    /\ response' = valid_response(
                           dictify_with_auth(profile, user, FALSE, FALSE).ret)
                    /\ is_owner(profile, user)
            ELSE /\ response' = bad_request
                 /\ session' = session
       /\ IsReserved(request', url_validator', LOGOUT) =>
            /\ session' = None
            /\ response' = valid_response(NoneVal)
       /\ Intent(url_validator') = "ReservedAction" => objects' = objects]_vars

\* C20 witness: the client posted the valid credentials of u1 to /api/login/
\* and has the session of u1 and the 200 response with u1's profile
C20_Witness ==
    /\ request = Req("POST", EP(LOGIN), "anon", None, {}, "u1")
    /\ IsReserved(request, url_validator, LOGIN)
    /\ session = "u1"
    /\ response.status = 200
    /\ response.data.kind = "dict"

\* -------------------------------------------------------------------- C21
\* a direct dictify_helper call was made on a held instance
Helped == dictified.h \in Handles /\ dictified.op = "dictify_helper"

\* the recognized prefixes the field starts with, separator included
SpecPrefixes(field) ==
    SelectSeq(reserved_prefixes,
              LAMBDA prefix : startswith(field, prefix \o <<"_">>))

\* C21: a field is read as a relation directive only when it starts with a
\* recognized prefix followed by the separator, and its document then has
\* the one key left when prefix and separator are removed; any other field,
\* one that begins with the characters of a prefix without the separator
\* too, is read as a plain attribute under its full name; no field matches
\* two prefixes.
C21_PrefixWithSeparator ==
    (Helped /\ ~dictified.ommit_related_fields) =>
        LET field == dictified.fields_to_include[1]
            self == instances[dictified.h]
        IN /\ Len(SpecPrefixes(field)) <= 1
           /\ dictified.ret.kind = "dict"
           /\ DOMAIN dictified.ret.d = {SpecStripped(field)}
           /\ SpecPrefixes(field) = <<>> =>
                 dictified.ret.d[field] = getattr(self, field)

\* -------------------------------------------------------------------- C22
\* the fields a direct call serializes: the requested ones that are in the
\* tier sets the call goes through
Included ==
    LET self == instances[dictified.h] IN
    Elems(dictified.fields_to_include) \cap
        (IF dictified.op = "dictify_helper" THEN Elems(dictified.auth_level_fields)
         ELSE SpecTierFields(self.cls, self._user_auth))

\* the document of the same direct call with relation expansion allowed
Unsuppressed ==
    LET self == instances[dictified.h] IN
    IF dictified.op = "dictify_helper"
    THEN dictify_helper(self, dictified.auth_level_fields,
                        dictified.fields_to_include, FALSE)
    ELSE dictify(self, dictified.fields_to_include, FALSE)

Plain(fields) == {f \in fields : SpecPrefixes(f) = <<>>}

\* C22: with relation expansion suppressed, a directive field gives no key
\* at all (not its full name, not its stripped name, no null), and the plain
\* fields are serialized exactly as in the unsuppressed call: the document
\* has the plain fields of the call as its keys, with the unsuppressed values.
C22_SuppressedSkipsDirectives ==
    /\ (dictified.h \in Handles /\ dictified.ommit_related_fields) =>
          /\ dictified.ret.kind = "dict"
          /\ DOMAIN dictified.ret.d = Plain(Included)
          /\ \A f \in Plain(Included) :
                /\ f \in DOMAIN Unsuppressed
                /\ dictified.ret.d[f] = Unsuppressed[f]
    /\ (Called /\ call.ommit_related_fields /\ result.kind = "dict") =>
          LET self == instances[call.h]
              fields == Plain(SpecTierFields(self.cls, self._user_auth)
                              \cap SpecVerbosityFields(self.cls, call.short_dict))
              un == dictify_with_auth(self, call.user, call.short_dict, FALSE).ret
          IN /\ DOMAIN result.d = fields
             /\ \A f \in fields : f \in DOMAIN un.d /\ result.d[f] = un.d[f]

\* -------------------------------------------------------------------- C23
\* C23: a plain field whose attribute the instance does not have maps to
\* null under its own name, and an unsuppressed relation field whose related
\* object cannot be resolved maps to null under its stripped name: the key is
\* there in both cases, and the call returns a document.
C23_MissingIsNull ==
    (Helped /\ ~dictified.ommit_related_fields) =>
        LET field == dictified.fields_to_include[1]
            self == instances[dictified.h]
            relation == SpecStripped(field)
        IN /\ dictified.ret.kind = "dict"
           /\ (SpecPrefixes(field) = <<>> /\ getattr(self, field) = NoneVal) =>
                 /\ field \in DOMAIN dictified.ret.d
                 /\ dictified.ret.d[field] = NoneVal
           /\ (SpecPrefixes(field) # <<>> /\ related(self, relation).kind = "None") =>
                 /\ relation \in DOMAIN dictified.ret.d
                 /\ dictified.ret.d[relation] = NoneVal

\* -------------------------------------------------------------------- C24
ShortPrefixes == {FK_SHORT, ONE_TO_ONE_SHORT, REL_SHORT, MANY_TO_MANY_SHORT}

\* the serialization of a related instance for a requester as the claim
\* states it: None for a deactivated instance; otherwise the plain fields of
\* the tier the requester has on that instance, short or short and long
SpecNested(obj, user, short_dict) ==
    IF obj.active = 0 THEN NoneVal
    ELSE Dict([f \in Plain(SpecTierFields(obj.cls, SpecTier(obj, user))
                           \cap SpecVerbosityFields(obj.cls, short_dict))
                 |-> getattr(obj, f)])

\* the value the claim gives the relation field of self for a requester
SpecRelationValue(self, field, user) ==
    LET short_dict == SpecPrefixes(field)[1] \in ShortPrefixes
        val == related(self, SpecStripped(field))
    IN IF val.kind = "one" THEN SpecNested(val.obj, user, short_dict)
       ELSE List([i \in 1..Len(val.all) |->
                    SpecNested(Load(val.cls, val.all[i]), user, short_dict)])

\* the relation of the directive field resolves on the instance
Resolves(self, field) ==
    /\ SpecPrefixes(field) # <<>>
    /\ related(self, SpecStripped(field)).kind # "None"

\* C24: the value under the stripped name of an unsuppressed relation field
\* that resolves is the related instance's short serialization for the short
\* single-object directives and its short and long one for the long ones, and
\* a list with one entry per related object, short or short and long, for
\* the to-many directives; every nested serialization is made for the
\* requester of the outer call, with the tier that requester has on the
\* related instance.
C24_RelationValues ==
    /\ (Helped /\ ~dictified.ommit_related_fields) =>
          LET field == dictified.fields_to_include[1]
              self == instances[dictified.h]
          IN Resolves(self, field) =>
                /\ SpecStripped(field) \in DOMAIN dictified.ret.d
                /\ dictified.ret.d[SpecStripped(field)] =
                      SpecRelationValue(self, field, self._curr_user)
    /\ (Called /\ ~call.ommit_related_fields /\ result.kind = "dict") =>
          LET self == instances[call.h] IN
          \A field \in SpecTierFields(self.cls, self._user_auth)
                          \cap SpecVerbosityFields(self.cls, call.short_dict) :
              Resolves(self, field) =>
                /\ SpecStripped(field) \in DOMAIN result.d
                /\ result.d[SpecStripped(field)] =
                      SpecRelationValue(self, field, call.user)

\* C24 witness: u2, who has the owner's tier on Qux 1 and only the
\* registered tier on Foo 1, asked Qux 1 for the long documents of its foos
\* and got one entry, with the keys of the registered tier on Foo 1.
C24_Witness ==
    /\ Helped
    /\ ~dictified.ommit_related_fields
    /\ dictified.fields_to_include = <<N_m2m_long_foos>>
    /\ instances[dictified.h].cls = "Qux"
    /\ instances[dictified.h]._curr_user = "u2"
    /\ instances[dictified.h]._user_auth = OWNER
    /\ dictified.ret.d[N_foos].kind = "list"
    /\ Len(dictified.ret.d[N_foos].l) = Cardinality(instances[dictified.h].foos)
    /\ DOMAIN dictified.ret.d[N_foos].l[1].d = {N_id, N_f1}

\* -------------------------------------------------------------------- C25
\* the types whose api_update has logic of its own and ends with the default
TypeSpecific == {"Foo", "Bar", "Baz", "Qux"}

\* a POST InstanceRequest on such a type whose key resolves, in the store as
\* it is before the request
TypeSpecificUpdate(req, uv) ==
    /\ IsInstanceRequest("POST", req, uv)
    /\ endpoint_model(uv) \in TypeSpecific
    /\ retrieve_model_instance(endpoint_model(uv), uv.REQUESTED_MODEL_INSTANCE)
          # NoInstance

\* the row the update leaves when the mutation comes first, the deactivation
\* check second and the persist last
SpecUpdated(row, req) ==
    LET mutated == IF "f1" \in req.POST THEN [row EXCEPT !.f1 = @ + 1] ELSE row IN
    IF "deactivate" \in req.POST
    THEN {[mutated EXCEPT !.active = 0, !.date_deactivated = now] : now \in Times}
    ELSE {mutated}

\* what the claim says of the step that handles req: the owner's update is
\* persisted whole and answered by the row's state, and the update of a
\* requester who is not the owner changes nothing
OrderedUpdate(req, uv, gated) ==
    LET cls == endpoint_model(uv)
        id == IntOf(uv.REQUESTED_MODEL_INSTANCE)
        found == retrieve_model_instance(cls, uv.REQUESTED_MODEL_INSTANCE)
    IN /\ (is_owner(found, req.user)
            /\ (gated => PassesGate(req.user, cls, public_update_endpoints))) =>
             /\ objects'[cls][id] \in SpecUpdated(objects[cls][id], req)
             /\ objects' = [objects EXCEPT ![cls][id] = objects'[cls][id]]
             /\ ({"f1", "deactivate"} \subseteq req.POST) =>
                   /\ objects'[cls][id].f1 = objects[cls][id].f1 + 1
                   /\ objects'[cls][id].active = 0
                   /\ response' = bad_request
       /\ ~is_owner(found, req.user) => objects' = objects

\* C25 as claimed: in an update whose type-specific logic ends with the
\* default, the mutation comes first, the deactivation check second and one
\* persist last: after an owner's POST with a field change and the deactivate
\* flag the persisted row has the change and is inactive and the response is
\* 404; for a requester who is not the owner nothing is mutated or persisted.
C25_UpdateOrder_Original ==
    [][TypeSpecificUpdate(request', url_validator')
          => OrderedUpdate(request', url_validator', FALSE)]_vars

\* C25 amended: the same, for an owner who also passes the authentication
\* gate of the update.
C25_UpdateOrder ==
    [][TypeSpecificUpdate(request', url_validator')
          => OrderedUpdate(request', url_validator', TRUE)]_vars

\* C25 witness: u1, the owner of Foo 1, posted f1 and deactivate to
\* /api/foo/1/; the row has f1 raised and is inactive, and the answer is 404.
C25_Witness ==
    /\ request = Req("POST", IP("foo", "1"), "u1", None, {"f1", "deactivate"}, None)
    /\ objects["Foo"][1].f1 = Fixture["Foo"][1].f1 + 1
    /\ objects["Foo"][1].active = 0
    /\ response = bad_request

\* -------------------------------------------------------------------- C26
\* a POST InstanceRequest whose key resolves, in the store as it is before
\* the request
UpdateOfFound(req, uv) ==
    /\ IsInstanceRequest("POST", req, uv)
    /\ retrieve_model_instance(endpoint_model(uv), uv.REQUESTED_MODEL_INSTANCE)
          # NoInstance

\* the default update is what answers: the type keeps APIModel.api_update, or
\* its own logic goes on to it (the requester is an owner)
ReachesDefault(found, req) ==
    found.cls \notin TypeSpecific \/ is_owner(found, req.user)

\* what the claim says of the step that handles req
DefaultUpdateFrame(req, uv, gated) ==
    LET cls == endpoint_model(uv)
        id == IntOf(uv.REQUESTED_MODEL_INSTANCE)
        found == retrieve_model_instance(cls, uv.REQUESTED_MODEL_INSTANCE)
        after == Instance(cls, id, objects'[cls][id])
    IN /\ ("deactivate" \notin req.POST \/ ~is_owner(found, req.user)) =>
             /\ after.active = found.active
             /\ after.date_deactivated = found.date_deactivated
       /\ (/\ ReachesDefault(found, req)
           /\ gated => PassesGate(req.user, cls, public_update_endpoints)
           /\ found.active # 0
           /\ after.active # 0) =>
             response' = valid_response(
                 dictify_with_auth(after, req.user, FALSE, FALSE).ret)

\* C26 as claimed: under the default update behaviour a POST InstanceRequest
\* with the deactivate flag from a requester who is not an owner leaves
\* active and the deactivation timestamp as they are, and so does an update
\* without the flag; for an instance that stays active the response is 200
\* with its long serialization.
C26_DefaultUpdate_Original ==
    [][UpdateOfFound(request', url_validator')
          => DefaultUpdateFrame(request', url_validator', FALSE)]_vars

\* C26 amended: the same, the 200 response being that of a requester who
\* passes the authentication gate of the update.
C26_DefaultUpdate ==
    [][UpdateOfFound(request', url_validator')
          => DefaultUpdateFrame(request', url_validator', TRUE)]_vars

\* C26 witness: u2, who is not the owner of profile 1, posted deactivate to
\* /api/profile/1/; the profile is active, without a timestamp, and the answer
\* is 200 with a document.
C26_Witness ==
    /\ request = Req("POST", IP("profile", "1"), "u2", None, {"deactivate"}, None)
    /\ objects["TestProfile"][1].active = 1
    /\ objects["TestProfile"][1].date_deactivated = 0
    /\ response.status = 200
    /\ response.data.kind = "dict"

\* -------------------------------------------------------------------- C27
\* C27: once the persisted active flag of an instance is false it never
\* becomes true again, whatever requests are handled and however the steps
\* of concurrent requests interleave.
C27_InactiveForGood ==
    [][\A cls \in Classes : \A id \in DOMAIN objects[cls] :
          objects[cls][id].active = 0 => objects'[cls][id].active = 0]_vars

\* -------------------------------------------------------------------- C28
\* C28: for an authenticated requester the tier set_user_auth leaves on the
\* instance is Owner exactly when is_owner holds for the requester and
\* RegisteredUser otherwise, whatever calls were made on the instance before;
\* the requester is left on the instance as its current user.
C28_TierOfAuthenticated ==
    (Called /\ is_authenticated(call.user) /\ instances[call.h].active # 0) =>
        LET self == instances[call.h] IN
        /\ self._curr_user = call.user
        /\ self._user_auth = IF is_owner(self, call.user) THEN OWNER
                             ELSE REGISTERED_USER
        /\ self._user_auth = OWNER <=> is_owner(self, call.user)

\* C28 witness: u2, a registered user who does not own Foo 1, asked for its
\* long document and was given the registered tier, without the owner-only f2.
C28_Witness ==
    /\ Called
    /\ call.user = "u2"
    /\ ~call.short_dict
    /\ instances[call.h].cls = "Foo"
    /\ instances[call.h].id = 1
    /\ instances[call.h]._user_auth = REGISTERED_USER
    /\ result.kind = "dict"
    /\ N_f1 \in DOMAIN result.d
    /\ N_f2 \notin DOMAIN result.d

\* -------------------------------------------------------------------- C29
\* the step handles a GET CollectionRequest, or a GET InstanceRequest whose
\* key resolves in the store as it is before the request
ReadHandled ==
    /\ request = NoRequest
    /\ request' # NoRequest
    /\ request'.method = "GET"
    /\ validate_request(url_validator')
    /\ \/ Intent(url_validator') = "CollectionRequest"
       \/ /\ Intent(url_validator') = "InstanceRequest"
          /\ retrieve_model_instance(endpoint_model(url_validator'),
                                     url_validator'.REQUESTED_MODEL_INSTANCE)
                # NoInstance

\* the step is a dictify_with_auth call on a held instance
SerializationCall == request' = request /\ call'.h \in Handles

\* an instance without what is transient on it: its tier and current requester
Persistent(self) ==
    IF self = NoInstance THEN self
    ELSE [self EXCEPT !._user_auth = PUBLIC, !._curr_user = None]

\* C29: reads leave the persisted state as it is: handling a GET
\* CollectionRequest or a GET InstanceRequest that resolves its instance, and
\* every dictify_with_auth call, change no row of the store and create none;
\* on the instance it is made on a serialization call changes the transient
\* tier and current requester and nothing else, and it changes no other
\* instance.
C29_ReadsChangeNothing ==
    [][/\ ReadHandled => objects' = objects
       /\ SerializationCall =>
             /\ objects' = objects
             /\ \A h \in Handles :
                   /\ Persistent(instances'[h]) = Persistent(instances[h])
                   /\ h # call'.h => instances'[h] = instances[h]]_vars

\* C29 witness: with Foo 1 changed by its owner in the store, the view has
\* answered a GET of the collection, and a caller holds a Foo 1 that a
\* dictify_with_auth call for u1 left at the owner's tier.
C29_Witness ==
    /\ request # NoRequest
    /\ request.method = "GET"
    /\ Intent(url_validator) = "CollectionRequest"
    /\ response.status = 200
    /\ objects["Foo"][1] # Fixture["Foo"][1]
    /\ Called
    /\ call.user = "u1"
    /\ instances[call.h].cls = "Foo"
    /\ instances[call.h]._user_auth = OWNER
    /\ instances[call.h]._curr_user = "u1"

====
